---- MODULE Spec2Model ----
(***************************************************************************)
(* FieldBoundaryDownloader (agri_toolkit/downloaders/field_boundaries.py): *)
(* one downloader instance, its lazily created DuckDB connection, the      *)
(* remote GeoParquet dataset it samples, and the output files it writes.   *)
(* A download call is followed statement group by statement group: input   *)
(* validation, connection acquisition, the remote query with its           *)
(* post-processing, the validation gate, and persistence.                  *)
(***************************************************************************)
EXTENDS Integers, Sequences, FiniteSets, TLC

(* ---------------------------------------------------------------------- *)
(* Bounds of the model                                                     *)
(* ---------------------------------------------------------------------- *)

\* largest count a caller passes
MaxCount == 2

(* ---------------------------------------------------------------------- *)
(* Program constants                                                       *)
(* ---------------------------------------------------------------------- *)

\* REGION_STATE_FIPS: region name -> state FIPS codes
REGION_STATE_FIPS ==
    [ corn_belt    |-> <<"17", "19", "18", "39", "27">>,
      great_plains |-> <<"20", "31", "46", "38", "48">>,
      southeast    |-> <<"05", "28", "22", "13">> ]

\* list(self.REGION_STATE_FIPS.keys()), in insertion order
RegionKeys == <<"corn_belt", "great_plains", "southeast">>

\* CROP_TYPES: crop name -> CDL codes
CROP_TYPES ==
    [ corn     |-> <<"1">>,
      soybeans |-> <<"5">>,
      wheat    |-> <<"23", "24", "25", "26", "27">>,
      cotton   |-> <<"2">> ]

\* list(self.CROP_TYPES.keys()), in insertion order
CropKeys == <<"corn", "soybeans", "wheat", "cotton">>

\* kwargs.get("count", 200): the default count
DefaultCount == 200

\* 1 acre = 4046.86 square metres; areas are kept in hundredths of a square
\* metre so that area_acres = AcresNum / SqMetresPerAcreX100 exactly
SqMetresPerAcreX100 == 404686

(* ---------------------------------------------------------------------- *)
(* Helpers on sequences                                                    *)
(* ---------------------------------------------------------------------- *)

Range(s) == {s[i] : i \in 1..Len(s)}

Max(a, b) == IF a >= b THEN a ELSE b

Min(a, b) == IF a <= b THEN a ELSE b

\* for x in lists: out.extend(table[x])
RECURSIVE ExtendAll(_, _)
ExtendAll(table, names) ==
    IF names = <<>> THEN <<>>
    ELSE table[Head(names)] \o ExtendAll(table, Tail(names))

\* an optional keyword argument: absent (None) or a value
Absent(dflt) == [given |-> FALSE, val |-> dflt]
Given(v) == [given |-> TRUE, val |-> v]

(* ---------------------------------------------------------------------- *)
(* The remote dataset: a bag of rows (row -> multiplicity). A row keeps    *)
(* its id as <<two-character prefix, rest>>, its 2023 crop code, the area  *)
(* of its geometry in EPSG:5070 square metres and the validity of its      *)
(* geometry.                                                               *)
(* ---------------------------------------------------------------------- *)

\* number of zero-area cotton rows of the first dataset: more than the row
\* limit of a count = 1 query leaves room for
BulkRows == 11

RemoteRow(fips, rest, crop, sqm, valid) ==
    [id |-> <<fips, rest>>, crop_code |-> crop, area_sqm |-> sqm, is_valid |-> valid]

DatasetA ==
    (RemoteRow("17", 1, "1", 40469, TRUE) :> 1) @@
    (RemoteRow("19", 1, "5", 404686, TRUE) :> 1) @@
    (RemoteRow("27", 1, "1", 0, TRUE) :> 1) @@
    (RemoteRow("20", 1, "24", 40469, TRUE) :> 1) @@
    (RemoteRow("48", 1, "1", 404686, FALSE) :> 1) @@
    (RemoteRow("28", 1, "2", 40469, TRUE) :> 1) @@
    (RemoteRow("05", 1, "2", 0, TRUE) :> BulkRows)

DatasetB ==
    (RemoteRow("17", 1, "1", 40469, TRUE) :> 2) @@
    (RemoteRow("39", 1, "5", 404686, TRUE) :> 1) @@
    (RemoteRow("31", 1, "1", 404686, TRUE) :> 1) @@
    (RemoteRow("46", 1, "23", 0, TRUE) :> 1)

Datasets == {DatasetA, DatasetB}

\* substr(id, 1, 2) as state_fips
StateFipsOf(id) == id[1]

\* the WHERE clause without its state predicate
MatchingCropOnly(bag, state_fips, crop_codes) ==
    LET keep == {r \in DOMAIN bag : r.crop_code \in Range(crop_codes)}
    IN [r \in keep |-> bag[r]]

\* WHERE substr(id, 1, 2) IN (state_filter) AND "crop:code" IN (crop_filter)
Matching(bag, state_fips, crop_codes) ==
    LET keep == {r \in DOMAIN bag : /\ StateFipsOf(r.id) \in Range(state_fips)
                                    /\ r.crop_code \in Range(crop_codes)}
    IN [r \in keep |-> bag[r]]

\* ORDER BY random() LIMIT k: every arrangement of k rows of the bag (all of
\* them when the bag holds fewer)
Occurrences(s, r) == Cardinality({i \in 1..Len(s) : s[i] = r})

\* the arrangements in S, each extended by up to k further rows of the bag
RECURSIVE Grow(_, _, _)
Grow(S, bag, k) ==
    LET T == {Append(p[1], p[2]) :
                p \in {q \in S \X DOMAIN bag : Occurrences(q[1], q[2]) < bag[q[2]]}}
    IN IF k = 0 \/ T = {} THEN S ELSE Grow(T, bag, k - 1)

Samples(bag, k) == Grow({<<>>}, bag, k)

\* the row limit without its count + 10 floor
RequestCountDoubleOnly(count) == count * 2

\* request_count = max(count * 2, count + 10)
RequestCount(count) == Max(count * 2, count + 10)

(* ---------------------------------------------------------------------- *)
(* download: argument parsing and input validation (lines 162-204)         *)
(* ---------------------------------------------------------------------- *)

NoError == [type |-> "none", msg |-> "", names |-> <<>>, options |-> <<>>, cause |-> ""]

ValueError(m, offending, valid) ==
    [type |-> "ValueError", msg |-> m, names |-> offending, options |-> valid, cause |-> ""]

RuntimeError(m, c) ==
    [type |-> "RuntimeError", msg |-> m, names |-> <<>>, options |-> <<>>, cause |-> c]

\* count: int = kwargs.get("count", 200)
CountOf(kwargs) == IF kwargs.count.given THEN kwargs.count.val ELSE DefaultCount

\* output_format: str = kwargs.get("output_format", "geojson")
FormatOf(kwargs) ==
    IF kwargs.output_format.given THEN kwargs.output_format.val ELSE "geojson"

\* the count check with the boundary off by one: count = 0 passes
CountTooSmallBelowZero(count) == count < 0

\* if count < 1
CountTooSmall(count) == count < 1

\* the default dropped: an omitted regions argument is read as an empty list
DefaultRegionsNoDefault(arg) == arg.val

\* if regions is None: regions = ["corn_belt"]
DefaultRegions(arg) == IF arg.given THEN arg.val ELSE <<"corn_belt">>

\* if not regions
RegionsEmpty(regions) == regions = <<>>

\* the comprehension without its filter: a list with an unknown name is
\* reported whole
InvalidRegionsWholeList(regions) ==
    IF \E i \in 1..Len(regions) : regions[i] \notin DOMAIN REGION_STATE_FIPS
        THEN regions ELSE <<>>

\* [r for r in regions if r not in self.REGION_STATE_FIPS]
InvalidRegions(regions) ==
    SelectSeq(regions, LAMBDA r : r \notin DOMAIN REGION_STATE_FIPS)

\* if crops is None: crops = ["corn", "soybeans"]
DefaultCrops(arg) == IF arg.given THEN arg.val ELSE <<"corn", "soybeans">>

\* only the first unknown crop is reported
InvalidCropsFirstOnly(crops) ==
    LET bad == SelectSeq(crops, LAMBDA c : c \notin DOMAIN CROP_TYPES)
    IN IF bad = <<>> THEN <<>> ELSE <<Head(bad)>>

\* [c for c in crops if c not in self.CROP_TYPES]
InvalidCrops(crops) ==
    SelectSeq(crops, LAMBDA c : c \notin DOMAIN CROP_TYPES)

\* the first input check of download that fails, NoError when all pass
InputError(kwargs) ==
    LET regions == DefaultRegions(kwargs.regions)
        crops == DefaultCrops(kwargs.crops)
    IN  IF CountTooSmall(CountOf(kwargs))
            THEN ValueError("count must be at least 1", <<>>, <<>>)
        ELSE IF RegionsEmpty(regions)
            THEN ValueError("regions cannot be empty", <<>>, <<>>)
        ELSE IF InvalidRegions(regions) # <<>>
            THEN ValueError("Invalid regions", InvalidRegions(regions), RegionKeys)
        ELSE IF InvalidCrops(crops) # <<>>
            THEN ValueError("Invalid crops", InvalidCrops(crops), CropKeys)
        ELSE NoError

(* ---------------------------------------------------------------------- *)
(* _query_source_cooperative: from the query result to the returned frame  *)
(* (lines 253-391)                                                         *)
(* ---------------------------------------------------------------------- *)

\* state_fips.extend(self.REGION_STATE_FIPS[region]) for each region
StateFilter(regions) == ExtendAll(REGION_STATE_FIPS, regions)

\* the crop filter taken out of the query: every code of the table passes
CropFilterRemoved(crops) == ExtendAll(CROP_TYPES, CropKeys)

\* crop_codes.extend(self.CROP_TYPES[crop]) for each crop
CropFilter(crops) == ExtendAll(CROP_TYPES, crops)

\* the result sets the remote can answer the query with
QueryResults(bag, count, regions, crops) ==
    Samples(Matching(bag, StateFilter(regions), CropFilter(crops)), RequestCount(count))

\* gdf["area_acres"] = gdf.geometry.area / 4046.86, as the numerator over
\* SqMetresPerAcreX100
AreaAcres(area_sqm) == area_sqm * 100

\* crs="EPSG:5070": the equal-area CRS the remote geometries are in
SourceCrs == "EPSG:5070"

\* gdf.to_crs("EPSG:4326"): the geographic CRS of the returned frame
OutputCrs == "EPSG:4326"

\* gdf.geometry.area of a geometry that covers area_sqm square metres, in the
\* units of the CRS the frame is in: square metres in the equal-area CRS,
\* square degrees (one is more than 10^9 square metres) in the geographic one
GeometryArea(area_sqm, crs) ==
    IF crs = SourceCrs THEN area_sqm ELSE area_sqm \div (10 ^ 9)

\* the area taken after the reprojection, in square degrees
AreaCrsAfterReprojection == OutputCrs

\* the CRS the frame is in when line 346 takes the area: to_crs comes later
AreaCrs == SourceCrs

\* the row of the frame built from a row of the query result, before the
\* region column is attached
FrameRow(r) ==
    [field_id |-> r.id, state_fips |-> StateFipsOf(r.id), crop_code |-> r.crop_code,
     area_acres |-> AreaAcres(GeometryArea(r.area_sqm, AreaCrs)), is_valid |-> r.is_valid,
     region |-> "NaN"]

\* the area filter that lets zero-area rows through
PositiveAreaNonNegative(rows) == SelectSeq(rows, LAMBDA r : r.area_acres >= 0)

\* gdf = gdf[gdf["area_acres"] > 0]
PositiveArea(rows) == SelectSeq(rows, LAMBDA r : r.area_acres > 0)

\* the limit dropped: every row that passed the area filter is kept
LimitToCountNoLimit(rows, count) == rows

\* if len(gdf) > count: gdf = gdf.iloc[:count]
LimitToCount(rows, count) == IF Len(rows) > count THEN SubSeq(rows, 1, count) ELSE rows

\* the reverse table filled with the last region for every code
StateToRegionLastRegion ==
    LET codes == UNION {Range(REGION_STATE_FIPS[k]) : k \in DOMAIN REGION_STATE_FIPS}
    IN [f \in codes |-> RegionKeys[Len(RegionKeys)]]

\* state_to_region[fips] = region for every region and code, later regions
\* overwriting earlier ones
StateToRegion ==
    LET codes == UNION {Range(REGION_STATE_FIPS[k]) : k \in DOMAIN REGION_STATE_FIPS}
        Last(f) == CHOOSE i \in 1..Len(RegionKeys) :
                      /\ f \in Range(REGION_STATE_FIPS[RegionKeys[i]])
                      /\ \A j \in (i + 1)..Len(RegionKeys) :
                            f \notin Range(REGION_STATE_FIPS[RegionKeys[j]])
    IN [f \in codes |-> RegionKeys[Last(f)]]

\* the labelling that fills every unmapped code with the first requested
\* region, however many were requested
RegionLabelFillsFirst(fips, regions) ==
    IF fips \in DOMAIN StateToRegion THEN StateToRegion[fips]
    ELSE IF Len(regions) >= 1 THEN regions[1]
    ELSE "NaN"

\* gdf["state_fips"].map(state_to_region), then fillna("mixed") or
\* fillna(regions[0])
RegionLabel(fips, regions) ==
    IF fips \in DOMAIN StateToRegion THEN StateToRegion[fips]
    ELSE IF Len(regions) > 1 THEN "mixed"
    ELSE IF Len(regions) = 1 THEN regions[1]
    ELSE "NaN"

ColumnOrder ==
    <<"field_id", "region", "state_fips", "area_acres", "crop_code", "crop_name",
      "crop_code_list", "geometry">>

NoFrame == [rows |-> <<>>, columns |-> {}, crs |-> "None"]

\* lines 325-391: decode, area, reprojection, area filter, limit, region
\* labels, column order
BuildFrame(result_df, count, regions) ==
    LET kept == LimitToCount(PositiveArea([i \in 1..Len(result_df) |-> FrameRow(result_df[i])]),
                             count)
    IN [rows |-> [i \in 1..Len(kept) |->
                     [kept[i] EXCEPT !.region = RegionLabel(kept[i].state_fips, regions)]],
        columns |-> Range(ColumnOrder),
        crs |-> OutputCrs]

(* ---------------------------------------------------------------------- *)
(* validate (lines 424-463) and _save_fields (lines 397-422)               *)
(* ---------------------------------------------------------------------- *)

RequiredColumns == {"field_id", "region", "geometry"}

\* the gate without its emptiness check
ValidateAcceptsEmpty(data) ==
    /\ RequiredColumns \subseteq data.columns
    /\ \A i \in 1..Len(data.rows) : data.rows[i].is_valid
    /\ data.crs # "None"

\* validate without the required-columns check: data.geometry is read on a
\* frame that has no geometry column
ValidateResultNoColumnCheck(arg) ==
    IF ~arg.given \/ Len(arg.val.rows) = 0 THEN "False"
    ELSE IF "geometry" \notin arg.val.columns THEN "raises"
    ELSE IF \E i \in 1..Len(arg.val.rows) : ~arg.val.rows[i].is_valid THEN "False"
    ELSE IF arg.val.crs = "None" THEN "False"
    ELSE "True"

\* validate(data), statement by statement: "True" or "False" for the value
\* returned, "raises" when a statement raises (data.geometry on a frame
\* without a geometry column); data is None is an absent argument
ValidateResult(arg) ==
    IF ~arg.given \/ Len(arg.val.rows) = 0 THEN "False"
    ELSE IF RequiredColumns \ arg.val.columns # {} THEN "False"
    ELSE IF "geometry" \notin arg.val.columns THEN "raises"
    ELSE IF \E i \in 1..Len(arg.val.rows) : ~arg.val.rows[i].is_valid THEN "False"
    ELSE IF arg.val.crs = "None" THEN "False"
    ELSE "True"

\* the gate that reads only the columns and the CRS, not the geometries
ValidateSkipsGeometry(data) ==
    /\ Len(data.rows) # 0
    /\ RequiredColumns \subseteq data.columns
    /\ data.crs # "None"

\* self.validate(fields_gdf) as download uses it
Validate(data) == ValidateResult(Given(data)) = "True"

\* the two file names exchanged
OutputFileSwapped(output_format) ==
    IF output_format = "geojson" THEN "fields.shp"
    ELSE IF output_format = "shapefile" THEN "fields.geojson"
    ELSE ""

\* the file name _save_fields writes for a format, "" for an unsupported one
OutputFile(output_format) ==
    IF output_format = "geojson" THEN "fields.geojson"
    ELSE IF output_format = "shapefile" THEN "fields.shp"
    ELSE ""

\* the ESRI Shapefile driver keeps the first ten characters of a column name
ShapefileColumn(c) == IF c = "crop_code_list" THEN "crop_code_" ELSE c

\* the columns of the file gdf.to_file writes
FileColumns(columns, output_format) ==
    IF output_format = "shapefile" THEN {ShapefileColumn(c) : c \in columns} ELSE columns

NoFile == [exists |-> FALSE, nrows |-> 0, columns |-> {}]

\* gpd.read_file(path): the frame read back from an output file
ReadFile(file) == [nrows |-> file.nrows, columns |-> file.columns]

(* ---------------------------------------------------------------------- *)
(* _get_duckdb_connection (lines 97-112)                                   *)
(* ---------------------------------------------------------------------- *)

\* the statements executed on a fresh connection, in order
ExtStatements == <<"INSTALL spatial;", "LOAD spatial;", "INSTALL httpfs;", "LOAD httpfs;">>

\* a connection on which every statement of ExtStatements has been executed
FullyLoaded(handle) == handle.done = 1..Len(ExtStatements)

(* ---------------------------------------------------------------------- *)
(* State                                                                   *)
(* ---------------------------------------------------------------------- *)

VARIABLES
    remote,          \* the remote dataset (frozen)
    duckdb_conn,     \* self._duckdb_conn: 0 for None, else an index of handles
    handles,         \* every connection duckdb.connect() has returned
    files,           \* the files under <raw_data_path>/field_boundaries
    pc,              \* where the current download call stands
    kwargs,          \* the keyword arguments of the current call
    acquired,        \* _get_duckdb_connection was entered in this call
    queries,         \* remote data queries issued in this call
    con,             \* the handle _get_duckdb_connection returned, 0 before
    stmt,            \* statements of ExtStatements this call has executed
    result_df,       \* the rows the remote query returned
    initial_count,   \* len(gdf) before the area filter
    filtered_count,  \* len(gdf) after the area filter
    fields_gdf,      \* the frame built from the query result
    written,         \* names of the files this call has written
    error,           \* the exception the call raised, NoError otherwise
    vdata,           \* the argument of a direct validate call
    vresult,         \* what that call did: "True", "False" or "raises"
    fcall,           \* a call outside download: __init__ or one expression
    thread2          \* a second thread's connection acquisition

vars ==
    <<remote, duckdb_conn, handles, files, pc, kwargs, acquired, queries, con, stmt,
      result_df, initial_count, filtered_count, fields_gdf, written, error, vdata,
      vresult, fcall, thread2>>

validation == <<vdata, vresult>>

\* what a download call of the first thread leaves alone
aside == <<validation, fcall, thread2>>

instance == <<remote, duckdb_conn, handles, files>>

locals == <<con, stmt, result_df, initial_count, filtered_count, fields_gdf>>

(* ---------------------------------------------------------------------- *)
(* Inputs                                                                  *)
(* ---------------------------------------------------------------------- *)

CountInputs == {Given(c) : c \in (0 - 1)..MaxCount}

RegionInputs ==
    { Absent(<<>>), Given(<<>>), Given(<<"southeast">>),
      Given(<<"corn_belt", "great_plains">>),
      Given(<<"not_a_region", "corn_belt", "invalid_region">>) }

CropInputs ==
    { Absent(<<>>), Given(<<>>), Given(<<"cotton">>), Given(<<"wheat", "corn">>),
      Given(<<"corn", "bogus", "invalid_crop">>) }

FormatInputs == {Absent(""), Given("shapefile"), Given("invalid")}

\* <<min_acres, max_acres>>: in range, negative minimum, minimum above maximum
AcreInputs ==
    {<<Given(0), Given(50)>>, <<Given(0 - 1), Given(50)>>, <<Given(20), Given(10)>>}

\* calls without acreage bounds, and calls with them in the default format
KwargsInputs ==
    { [count |-> c, regions |-> r, crops |-> k, output_format |-> f,
       min_acres |-> Absent(0), max_acres |-> Absent(0)] :
      c \in CountInputs, r \in RegionInputs, k \in CropInputs, f \in FormatInputs }
    \cup
    { [count |-> c, regions |-> r, crops |-> k, output_format |-> Absent(""),
       min_acres |-> a[1], max_acres |-> a[2]] :
      c \in CountInputs, r \in RegionInputs, k \in CropInputs, a \in AcreInputs }

NoKwargs ==
    [count |-> Absent(0), regions |-> Absent(<<>>), crops |-> Absent(<<>>),
     output_format |-> Absent(""), min_acres |-> Absent(0), max_acres |-> Absent(0)]

\* no call outside download is under way
NoCall == [op |-> "none", args |-> <<>>, result |-> "none"]

\* the second thread has not entered download
NoThread == [pc |-> "idle", made |-> 0, con |-> 0, stmt |-> 0, error |-> NoError]

(* ---------------------------------------------------------------------- *)
(* Init: the state after __init__ (lines 87-95)                            *)
(* ---------------------------------------------------------------------- *)

Init ==
    /\ remote \in Datasets
    /\ duckdb_conn = 0
    /\ handles = <<>>
    /\ files = [f \in {"fields.geojson", "fields.shp"} |-> NoFile]
    /\ pc = "idle"
    /\ kwargs = NoKwargs
    /\ acquired = FALSE
    /\ queries = 0
    /\ con = 0
    /\ stmt = 0
    /\ result_df = <<>>
    /\ initial_count = 0
    /\ filtered_count = 0
    /\ fields_gdf = NoFrame
    /\ written = {}
    /\ error = NoError
    /\ vdata = Absent(NoFrame)
    /\ vresult = "none"
    /\ fcall = NoCall
    /\ thread2 = NoThread

(* ---------------------------------------------------------------------- *)
(* Actions                                                                 *)
(* ---------------------------------------------------------------------- *)

\* the call leaves with exception e: its locals are gone
Raise(e) ==
    /\ pc' = "raised"
    /\ error' = e
    /\ con' = 0
    /\ stmt' = 0
    /\ result_df' = <<>>
    /\ initial_count' = 0
    /\ filtered_count' = 0
    /\ fields_gdf' = NoFrame

\* the except clause re-raising the cause as it came, without the wrapper
RaiseExtractionUnwrapped(cause) == Raise(RuntimeError(cause, ""))

\* except Exception as e: raise RuntimeError("Data download failed: %s" % e) from e
RaiseExtraction(cause) == Raise(RuntimeError("Data download failed", cause))

\* download(**kwargs), lines 162-204: a new call starts, parses its
\* arguments and validates them
Download(args) ==
    /\ pc = "idle"
    /\ kwargs' = args
    /\ acquired' = FALSE
    /\ queries' = 0
    /\ written' = {}
    /\ IF InputError(args) # NoError
          THEN Raise(InputError(args))
          ELSE /\ pc' = "get_conn"
               /\ error' = NoError
               /\ con' = 0
               /\ stmt' = 0
               /\ result_df' = <<>>
               /\ initial_count' = 0
               /\ filtered_count' = 0
               /\ fields_gdf' = NoFrame
    /\ UNCHANGED <<instance, aside>>

\* _get_duckdb_connection without the None test: every call connects anew
GetConnectionNoCache ==
    /\ pc = "get_conn"
    /\ acquired' = TRUE
    /\ pc' = "connect"
    /\ UNCHANGED <<instance, kwargs, queries, locals, written, error, aside>>

\* _get_duckdb_connection, line 103: if self._duckdb_conn is None
GetConnection ==
    /\ pc = "get_conn"
    /\ acquired' = TRUE
    /\ IF duckdb_conn = 0
          THEN pc' = "connect" /\ con' = con
          ELSE pc' = "query" /\ con' = duckdb_conn
    /\ UNCHANGED <<instance, kwargs, queries, stmt, result_df, initial_count,
                   filtered_count, fields_gdf, written, error, aside>>

\* line 104: self._duckdb_conn = duckdb.connect()
Connect ==
    /\ pc = "connect"
    /\ \/ /\ handles' = Append(handles, [closed |-> FALSE, done |-> {}])
          /\ duckdb_conn' = Len(handles) + 1
          /\ pc' = "ext"
          /\ UNCHANGED <<locals, error>>
       \/ /\ RaiseExtraction("connect failed")
          /\ UNCHANGED <<handles, duckdb_conn>>
    /\ UNCHANGED <<remote, files, kwargs, acquired, queries, written, aside>>

\* lines 106-112: the next statement of ExtStatements on self._duckdb_conn,
\* and after the last one return self._duckdb_conn
LoadExtension ==
    /\ pc = "ext"
    /\ \/ /\ handles' = [handles EXCEPT ![duckdb_conn].done = @ \cup {stmt + 1}]
          /\ stmt' = stmt + 1
          /\ IF stmt + 1 = Len(ExtStatements)
                THEN pc' = "query" /\ con' = duckdb_conn
                ELSE pc' = "ext" /\ con' = con
          /\ UNCHANGED <<result_df, initial_count, filtered_count, fields_gdf, error>>
       \/ /\ RaiseExtraction("extension failed")
          /\ UNCHANGED handles
    /\ UNCHANGED <<remote, duckdb_conn, files, kwargs, acquired, queries, written,
                   aside>>

\* the query issued again after it failed
ExecuteQueryRetry ==
    /\ pc = "query"
    /\ queries' = queries + 1
    /\ \/ /\ \E sample \in QueryResults(remote, CountOf(kwargs),
                                       DefaultRegions(kwargs.regions),
                                       DefaultCrops(kwargs.crops)) :
                result_df' = sample
          /\ pc' = "process"
          /\ UNCHANGED <<con, stmt, initial_count, filtered_count, fields_gdf, error>>
       \/ /\ queries = 0
          /\ UNCHANGED <<pc, locals, error>>
       \/ /\ queries > 0
          /\ RaiseExtraction("query failed")
    /\ UNCHANGED <<instance, kwargs, acquired, written, aside>>

\* line 306: result_df = con.execute(query).df()
ExecuteQuery ==
    /\ pc = "query"
    /\ queries' = queries + 1
    /\ \/ /\ \E sample \in QueryResults(remote, CountOf(kwargs),
                                       DefaultRegions(kwargs.regions),
                                       DefaultCrops(kwargs.crops)) :
                result_df' = sample
          /\ pc' = "process"
          /\ UNCHANGED <<con, stmt, initial_count, filtered_count, fields_gdf, error>>
       \/ RaiseExtraction("query failed")
    /\ UNCHANGED <<instance, kwargs, acquired, written, aside>>

\* lines 308-391: no rows is an error, otherwise the frame is built
ProcessResult ==
    /\ pc = "process"
    /\ IF Len(result_df) = 0
          THEN RaiseExtraction("No fields found matching criteria")
          ELSE /\ fields_gdf' = BuildFrame(result_df, CountOf(kwargs),
                                            DefaultRegions(kwargs.regions))
               /\ initial_count' = Len(result_df)
               /\ filtered_count' =
                     Len(PositiveArea([i \in 1..Len(result_df) |-> FrameRow(result_df[i])]))
               /\ result_df' = <<>>
               /\ pc' = "validate"
               /\ UNCHANGED <<con, stmt, error>>
    /\ UNCHANGED <<instance, kwargs, acquired, queries, written, aside>>

\* the frame persisted before the gate looks at it
ValidateGateSavesFirst ==
    /\ pc = "validate"
    /\ LET name == OutputFile(FormatOf(kwargs))
       IN IF name = ""
             THEN UNCHANGED <<files, written>>
             ELSE /\ files' = [files EXCEPT ![name] =
                                  [exists |-> TRUE, nrows |-> Len(fields_gdf.rows),
                                   columns |-> FileColumns(fields_gdf.columns,
                                                           FormatOf(kwargs))]]
                  /\ written' = written \cup {name}
    /\ IF Validate(fields_gdf)
          THEN pc' = "save" /\ UNCHANGED <<locals, error>>
          ELSE Raise(RuntimeError("Downloaded field data failed validation", ""))
    /\ UNCHANGED <<remote, duckdb_conn, handles, kwargs, acquired, queries, aside>>

\* lines 213-215: if not self.validate(fields_gdf): raise RuntimeError(...)
ValidateGate ==
    /\ pc = "validate"
    /\ IF Validate(fields_gdf)
          THEN pc' = "save" /\ UNCHANGED <<locals, error>>
          ELSE Raise(RuntimeError("Downloaded field data failed validation", ""))
    /\ UNCHANGED <<instance, kwargs, acquired, queries, written, aside>>

\* lines 217-221 and _save_fields: write the file and return the frame
SaveFields ==
    /\ pc = "save"
    /\ LET fmt == FormatOf(kwargs)
           name == OutputFile(fmt)
       IN IF name = ""
             THEN /\ Raise(ValueError("Unsupported output format", <<fmt>>,
                                      <<"geojson", "shapefile">>))
                  /\ UNCHANGED <<files, written>>
             ELSE /\ files' = [files EXCEPT ![name] =
                                  [exists |-> TRUE, nrows |-> Len(fields_gdf.rows),
                                   columns |-> FileColumns(fields_gdf.columns, fmt)]]
                  /\ written' = written \cup {name}
                  /\ pc' = "returned"
                  /\ UNCHANGED <<locals, error>>
    /\ UNCHANGED <<remote, duckdb_conn, handles, kwargs, acquired, queries, aside>>

\* the caller has taken the call's outcome (the frame of line 221 or the
\* exception): the call's frame is gone and the instance awaits the next call
CallEnds ==
    /\ pc \in {"returned", "raised"}
    /\ pc' = "idle"
    /\ kwargs' = NoKwargs
    /\ acquired' = FALSE
    /\ queries' = 0
    /\ written' = {}
    /\ error' = NoError
    /\ con' = 0
    /\ stmt' = 0
    /\ result_df' = <<>>
    /\ initial_count' = 0
    /\ filtered_count' = 0
    /\ fields_gdf' = NoFrame
    /\ UNCHANGED <<instance, aside>>

\* __del__ that drops the instance without closing its connection
DelLeavesOpen ==
    /\ pc = "idle"
    /\ pc' = "deleted"
    /\ UNCHANGED <<instance, kwargs, acquired, queries, locals, written, error,
                   aside>>

\* __del__, lines 465-468: close the connection if there is one
Del ==
    /\ pc = "idle"
    /\ pc' = "deleted"
    /\ handles' = IF duckdb_conn # 0
                     THEN [handles EXCEPT ![duckdb_conn].closed = TRUE]
                     ELSE handles
    /\ UNCHANGED <<remote, duckdb_conn, files, kwargs, acquired, queries, locals,
                   written, error, aside>>

Next ==
    \/ \E args \in KwargsInputs : Download(args)
    \/ GetConnection
    \/ Connect
    \/ LoadExtension
    \/ ExecuteQuery
    \/ ProcessResult
    \/ ValidateGate
    \/ SaveFields
    \/ CallEnds
    \/ Del

Spec == Init /\ [][Next]_vars

(* ---------------------------------------------------------------------- *)
(* validate called directly on a frame the caller supplies                 *)
(* ---------------------------------------------------------------------- *)

\* most rows of a frame handed to validate
MaxValidateRows == 2

\* rows that differ in the validity of their geometry
ValidateRowInputs ==
    {[field_id |-> <<"17", 1>>, state_fips |-> "17", crop_code |-> "1",
      area_acres |-> AreaAcres(40469), is_valid |-> v, region |-> "corn_belt"] :
     v \in BOOLEAN}

\* None, and frames of up to MaxValidateRows rows with any subset of the
\* required columns (beside two others) and with or without a CRS
ValidateInputs ==
    {Absent(NoFrame)} \cup
    { Given([rows |-> r, columns |-> c \cup {"state_fips", "area_acres"}, crs |-> s]) :
      r \in UNION {[1..n -> ValidateRowInputs] : n \in 0..MaxValidateRows},
      c \in SUBSET RequiredColumns,
      s \in {"None", "EPSG:4326", "EPSG:5070"} }

\* validate(data), lines 424-463, called by the user of an idle instance
ValidateCall(arg) ==
    /\ pc = "idle"
    /\ vresult = "none"
    /\ vdata' = arg
    /\ vresult' = ValidateResult(arg)
    /\ UNCHANGED <<instance, pc, kwargs, acquired, queries, locals, written, error,
                   fcall, thread2>>

\* the caller has taken the value validate returned
ValidateEnds ==
    /\ vresult # "none"
    /\ vdata' = Absent(NoFrame)
    /\ vresult' = "none"
    /\ UNCHANGED <<instance, pc, kwargs, acquired, queries, locals, written, error,
                   fcall, thread2>>

NextValidate ==
    \/ \E arg \in ValidateInputs : ValidateCall(arg)
    \/ ValidateEnds

SpecValidate == Init /\ [][NextValidate]_vars

(* ---------------------------------------------------------------------- *)
(* Properties                                                              *)
(* ---------------------------------------------------------------------- *)

\* a download call is in progress or has just ended
InCall == pc \notin {"idle", "deleted"}

\* the arguments of the current call after defaults
ArgCount == CountOf(kwargs)
ArgRegions == DefaultRegions(kwargs.regions)
ArgCrops == DefaultCrops(kwargs.crops)

RECURSIVE BagSum(_, _)
BagSum(bag, S) ==
    IF S = {} THEN 0
    ELSE LET r == CHOOSE x \in S : TRUE IN bag[r] + BagSum(bag, S \ {r})

\* the rows of the remote dataset that match the call's region and crop filter
RemoteMatching ==
    {r \in DOMAIN remote :
        /\ \E i \in 1..Len(ArgRegions) : r.id[1] \in Range(REGION_STATE_FIPS[ArgRegions[i]])
        /\ \E i \in 1..Len(ArgCrops) : r.crop_code \in Range(CROP_TYPES[ArgCrops[i]])}

RemoteMatchingTotal == BagSum(remote, RemoteMatching)

RemoteMatchingPositive == BagSum(remote, {r \in RemoteMatching : r.area_sqm > 0})

C3_ValidationBeforeRemote ==
    (pc = "raised" /\ error.type = "ValueError") => (~acquired /\ queries = 0)

\* C4: a call with count < 1 fails with the count error, whatever the other
\* arguments are.
C4_CountError ==
    (InCall /\ ArgCount < 1) =>
        /\ pc = "raised"
        /\ error = ValueError("count must be at least 1", <<>>, <<>>)

\* a call with count < 1, an unknown region, an unknown crop and an
\* unsupported format has ended with the count error
C4_Witness ==
    /\ pc = "raised"
    /\ ArgCount < 1
    /\ kwargs.regions.given
    /\ \E i \in 1..Len(kwargs.regions.val) :
          kwargs.regions.val[i] \notin {"corn_belt", "great_plains", "southeast"}
    /\ kwargs.crops.given
    /\ \E i \in 1..Len(kwargs.crops.val) :
          kwargs.crops.val[i] \notin {"corn", "soybeans", "wheat", "cotton"}
    /\ kwargs.output_format = Given("invalid")
    /\ error.msg = "count must be at least 1"

\* C5: with count >= 1, regions=[] fails with the empty-regions error, and a
\* call that omits regions never fails with it.
C5_EmptyRegionsError ==
    (InCall /\ ArgCount >= 1) =>
        /\ (kwargs.regions.given /\ kwargs.regions.val = <<>>) =>
              /\ pc = "raised"
              /\ error = ValueError("regions cannot be empty", <<>>, <<>>)
        /\ ~kwargs.regions.given => error.msg # "regions cannot be empty"

\* a call with count >= 1 and regions=[] has ended with the empty-regions error
C5_Witness ==
    /\ pc = "raised"
    /\ ArgCount >= 1
    /\ kwargs.regions = Given(<<>>)
    /\ error.msg = "regions cannot be empty"

\* the names of a list that are not keys of a table
UnknownNames(names, keys) == {names[i] : i \in {j \in 1..Len(names) : names[j] \notin keys}}

\* C6: with count >= 1, a regions list with a name outside the region table
\* fails with the invalid-regions error, which lists exactly the unknown
\* names and the valid region names.
C6_InvalidRegionsError ==
    (/\ InCall
     /\ ArgCount >= 1
     /\ kwargs.regions.given
     /\ UnknownNames(kwargs.regions.val, {"corn_belt", "great_plains", "southeast"}) # {}) =>
        /\ pc = "raised"
        /\ error.type = "ValueError"
        /\ error.msg = "Invalid regions"
        /\ Range(error.names) =
              UnknownNames(kwargs.regions.val, {"corn_belt", "great_plains", "southeast"})
        /\ Range(error.options) = {"corn_belt", "great_plains", "southeast"}

\* a list with two unknown names around a valid one was rejected
C6_Witness ==
    /\ pc = "raised"
    /\ ArgCount >= 1
    /\ kwargs.regions = Given(<<"not_a_region", "corn_belt", "invalid_region">>)
    /\ error.msg = "Invalid regions"

\* C7: with valid count and regions, a crops list with a name outside the
\* crop table fails with the invalid-crops error, which lists exactly the
\* unknown names and the valid crop names.
C7_InvalidCropsError ==
    (/\ InCall
     /\ ArgCount >= 1
     /\ ArgRegions # <<>>
     /\ UnknownNames(ArgRegions, {"corn_belt", "great_plains", "southeast"}) = {}
     /\ kwargs.crops.given
     /\ UnknownNames(kwargs.crops.val, {"corn", "soybeans", "wheat", "cotton"}) # {}) =>
        /\ pc = "raised"
        /\ error.type = "ValueError"
        /\ error.msg = "Invalid crops"
        /\ Range(error.names) =
              UnknownNames(kwargs.crops.val, {"corn", "soybeans", "wheat", "cotton"})
        /\ Range(error.options) = {"corn", "soybeans", "wheat", "cotton"}

\* a crops list with a valid name and two unknown ones was rejected
C7_Witness ==
    /\ pc = "raised"
    /\ kwargs.crops = Given(<<"corn", "bogus", "invalid_crop">>)
    /\ error.msg = "Invalid crops"
    /\ Len(error.names) = 2

\* C8 as stated: a call with crops=[] (and valid count and regions) is
\* rejected by input validation, before any remote call.
C8_EmptyCropsRejected ==
    (/\ InCall
     /\ ArgCount >= 1
     /\ ArgRegions # <<>>
     /\ UnknownNames(ArgRegions, {"corn_belt", "great_plains", "southeast"}) = {}
     /\ kwargs.crops = Given(<<>>)) =>
        /\ pc = "raised"
        /\ error.type = "ValueError"
        /\ ~acquired
        /\ queries = 0

\* the acreage bounds of the call break 0 <= min_acres <= max_acres
BadAcreBounds ==
    /\ kwargs.min_acres.given
    /\ kwargs.max_acres.given
    /\ \/ kwargs.min_acres.val < 0
       \/ kwargs.min_acres.val > kwargs.max_acres.val

\* C9 as stated: a call whose acreage bounds break 0 <= min_acres <=
\* max_acres fails with a validation error.
C9_BadAcreBoundsRejected ==
    (InCall /\ BadAcreBounds) => (pc = "raised" /\ error.type = "ValueError")

\* C10 as stated: when acreage bounds (with 0 <= min_acres <= max_acres) are
\* supplied, every returned record has an acreage within [min_acres, max_acres].
C10_ReturnedWithinAcreBounds ==
    (/\ pc = "returned"
     /\ kwargs.min_acres.given
     /\ kwargs.max_acres.given
     /\ ~BadAcreBounds) =>
        \A i \in 1..Len(fields_gdf.rows) :
            /\ kwargs.min_acres.val * SqMetresPerAcreX100 <= fields_gdf.rows[i].area_acres
            /\ fields_gdf.rows[i].area_acres <= kwargs.max_acres.val * SqMetresPerAcreX100

(* ---------------------------------------------------------------------- *)
(* The row limit and the region labelling applied to inputs of their own   *)
(* ---------------------------------------------------------------------- *)

\* largest count the row limit is computed for
MaxRequestCount == 12

RequestCountInputs == 1..MaxRequestCount

\* every code of REGION_STATE_FIPS and two codes of no region
LabelCodeInputs ==
    UNION {Range(REGION_STATE_FIPS[k]) : k \in DOMAIN REGION_STATE_FIPS} \cup {"06", "72"}

\* the non-empty lists of distinct regions
LabelRegionInputs ==
    {rs \in UNION {[1..n -> Range(RegionKeys)] : n \in 1..Len(RegionKeys)} :
        \A i, j \in 1..Len(rs) : i # j => rs[i] # rs[j]}

\* request_count for a count
RequestCountCall(count) ==
    /\ pc = "idle"
    /\ fcall.op = "none"
    /\ fcall' = [op |-> "request_count", args |-> <<count>>, result |-> RequestCount(count)]
    /\ UNCHANGED <<instance, pc, kwargs, acquired, queries, locals, written, error,
                   validation, thread2>>

\* the region column of one row with state code fips
RegionLabelCall(fips, regions) ==
    /\ pc = "idle"
    /\ fcall.op = "none"
    /\ fcall' = [op |-> "region_label", args |-> <<fips, regions>>,
                 result |-> RegionLabel(fips, regions)]
    /\ UNCHANGED <<instance, pc, kwargs, acquired, queries, locals, written, error,
                   validation, thread2>>

\* the value has been taken
HelperEnds ==
    /\ fcall.op \in {"request_count", "region_label"}
    /\ fcall' = NoCall
    /\ UNCHANGED <<instance, pc, kwargs, acquired, queries, locals, written, error,
                   validation, thread2>>

NextHelpers ==
    \/ \E count \in RequestCountInputs : RequestCountCall(count)
    \/ \E fips \in LabelCodeInputs, regions \in LabelRegionInputs :
          RegionLabelCall(fips, regions)
    \/ HelperEnds

SpecHelpers == Init /\ [][NextHelpers]_vars

(* ---------------------------------------------------------------------- *)
(* Construction: FieldBoundaryDownloader(...) with keyword arguments       *)
(* ---------------------------------------------------------------------- *)

\* the keyword parameters of __init__ (line 87)
InitParameters == {"config"}

\* a keyword argument __init__ has no parameter for
TypeError(unexpected) ==
    [type |-> "TypeError", msg |-> "__init__() got an unexpected keyword argument",
     names |-> unexpected, options |-> <<"config">>, cause |-> ""]

\* the keyword arguments the callers construct a downloader with
ConstructInputs == {<<>>, <<"config">>, <<"config", "data_source_url">>}

\* before the constructor has run: no instance yet
InitNew ==
    /\ remote \in Datasets
    /\ duckdb_conn = 0
    /\ handles = <<>>
    /\ files = [f \in {"fields.geojson", "fields.shp"} |-> NoFile]
    /\ pc = "new"
    /\ kwargs = NoKwargs
    /\ acquired = FALSE
    /\ queries = 0
    /\ con = 0
    /\ stmt = 0
    /\ result_df = <<>>
    /\ initial_count = 0
    /\ filtered_count = 0
    /\ fields_gdf = NoFrame
    /\ written = {}
    /\ error = NoError
    /\ vdata = Absent(NoFrame)
    /\ vresult = "none"
    /\ fcall = NoCall
    /\ thread2 = NoThread

\* FieldBoundaryDownloader(**names): the call binds its keyword arguments to
\* the parameters of __init__ and, when they bind, runs lines 93-95
Construct(names) ==
    /\ pc = "new"
    /\ LET unexpected == SelectSeq(names, LAMBDA n : n \notin InitParameters)
       IN IF unexpected = <<>>
             THEN /\ pc' = "idle"
                  /\ error' = NoError
                  /\ fcall' = [op |-> "__init__", args |-> names, result |-> "instance"]
             ELSE /\ pc' = "init_raised"
                  /\ error' = TypeError(unexpected)
                  /\ fcall' = [op |-> "__init__", args |-> names, result |-> "raises"]
    /\ UNCHANGED <<instance, kwargs, acquired, queries, locals, written, validation,
                   thread2>>

NextConstruct ==
    \/ \E names \in ConstructInputs : Construct(names)
    \/ NextValidate

SpecConstruct == InitNew /\ [][NextConstruct]_vars

(* ---------------------------------------------------------------------- *)
(* Two threads in download on one instance. The first thread's call is     *)
(* followed by the actions above; the second thread's call is followed     *)
(* through _get_duckdb_connection, which is where the threads meet.        *)
(* ---------------------------------------------------------------------- *)

\* the first thread's call: download(count=1)
ThreadKwargs == [NoKwargs EXCEPT !.count = Given(1)]

\* the second thread enters download and reaches line 252
T2Download ==
    /\ thread2.pc = "idle"
    /\ pc \notin {"new", "init_raised", "deleted"}
    /\ thread2' = [thread2 EXCEPT !.pc = "get_conn"]
    /\ UNCHANGED <<instance, pc, kwargs, acquired, queries, locals, written, error,
                   validation, fcall>>

\* line 103 in the second thread: if self._duckdb_conn is None
T2GetConnection ==
    /\ thread2.pc = "get_conn"
    /\ thread2' = IF duckdb_conn = 0
                     THEN [thread2 EXCEPT !.pc = "connect"]
                     ELSE [thread2 EXCEPT !.pc = "query", !.con = duckdb_conn]
    /\ UNCHANGED <<instance, pc, kwargs, acquired, queries, locals, written, error,
                   validation, fcall>>

\* line 104 in the second thread, right-hand side: duckdb.connect()
T2Connect ==
    /\ thread2.pc = "connect"
    /\ \/ /\ handles' = Append(handles, [closed |-> FALSE, done |-> {}])
          /\ thread2' = [thread2 EXCEPT !.pc = "store", !.made = Len(handles) + 1]
       \/ /\ thread2' = [thread2 EXCEPT !.pc = "raised",
                                        !.error = RuntimeError("Data download failed",
                                                               "connect failed")]
          /\ UNCHANGED handles
    /\ UNCHANGED <<remote, duckdb_conn, files, pc, kwargs, acquired, queries, locals,
                   written, error, validation, fcall>>

\* the second thread keeps the handle another thread has stored meanwhile
T2StoreKeepsFirst ==
    /\ thread2.pc = "store"
    /\ duckdb_conn' = IF duckdb_conn = 0 THEN thread2.made ELSE duckdb_conn
    /\ thread2' = [thread2 EXCEPT !.pc = "ext"]
    /\ UNCHANGED <<remote, handles, files, pc, kwargs, acquired, queries, locals,
                   written, error, validation, fcall>>

\* line 104 in the second thread, the assignment: self._duckdb_conn = <handle>
T2Store ==
    /\ thread2.pc = "store"
    /\ duckdb_conn' = thread2.made
    /\ thread2' = [thread2 EXCEPT !.pc = "ext"]
    /\ UNCHANGED <<remote, handles, files, pc, kwargs, acquired, queries, locals,
                   written, error, validation, fcall>>

\* lines 106-112 in the second thread: its next statement on the handle
\* self._duckdb_conn holds at that moment, and after the last one return
\* self._duckdb_conn
T2LoadExtension ==
    /\ thread2.pc = "ext"
    /\ \/ /\ handles' = [handles EXCEPT ![duckdb_conn].done = @ \cup {thread2.stmt + 1}]
          /\ thread2' = IF thread2.stmt + 1 = Len(ExtStatements)
                           THEN [thread2 EXCEPT !.stmt = @ + 1, !.pc = "query",
                                                !.con = duckdb_conn]
                           ELSE [thread2 EXCEPT !.stmt = @ + 1]
       \/ /\ thread2' = [thread2 EXCEPT !.pc = "raised",
                                        !.error = RuntimeError("Data download failed",
                                                               "extension failed")]
          /\ UNCHANGED handles
    /\ UNCHANGED <<remote, duckdb_conn, files, pc, kwargs, acquired, queries, locals,
                   written, error, validation, fcall>>

\* the second thread's call is over (with the handle it was given, or with
\* its exception)
T2Ends ==
    /\ thread2.pc \in {"query", "raised"}
    /\ thread2' = [thread2 EXCEPT !.pc = "done"]
    /\ UNCHANGED <<instance, pc, kwargs, acquired, queries, locals, written, error,
                   validation, fcall>>

\* __del__ once no thread is inside a call
ThreadsDel ==
    /\ thread2.pc \in {"idle", "done"}
    /\ Del

NextThreads ==
    \/ \E args \in {ThreadKwargs} : Download(args)
    \/ GetConnection
    \/ Connect
    \/ LoadExtension
    \/ ExecuteQuery
    \/ ProcessResult
    \/ ValidateGate
    \/ SaveFields
    \/ CallEnds
    \/ T2Download
    \/ T2GetConnection
    \/ T2Connect
    \/ T2Store
    \/ T2LoadExtension
    \/ T2Ends
    \/ ThreadsDel

SpecThreads == Init /\ [][NextThreads]_vars

(* ---------------------------------------------------------------------- *)
(* Properties of validate, of the gate and of what download returns        *)
(* ---------------------------------------------------------------------- *)

\* a frame that is absent or empty, lacks a required column, holds an
\* invalid geometry or carries no CRS
FrameDefect(arg) ==
    \/ ~arg.given
    \/ Len(arg.val.rows) = 0
    \/ \E c \in {"field_id", "region", "geometry"} : c \notin arg.val.columns
    \/ \E i \in 1..Len(arg.val.rows) : ~arg.val.rows[i].is_valid
    \/ arg.val.crs = "None"

\* C11: validate never raises and returns a boolean for every input: false
\* when the collection is absent or empty, lacks a required column, holds an
\* invalid geometry or has no CRS, and true exactly when none of these holds.
C11_ValidateTotalBoolean ==
    vresult # "none" =>
        /\ vresult \in {"True", "False"}
        /\ vresult = "False" <=> FrameDefect(vdata)

\* validate returned false on a frame whose only defect is the missing
\* geometry column
C11_Witness ==
    /\ vresult = "False"
    /\ vdata.given
    /\ Len(vdata.val.rows) >= 1
    /\ \A i \in 1..Len(vdata.val.rows) : vdata.val.rows[i].is_valid
    /\ vdata.val.crs = "EPSG:4326"
    /\ {"field_id", "region"} \subseteq vdata.val.columns
    /\ "geometry" \notin vdata.val.columns

\* C12: download returns a collection only after the gate accepted it, so a
\* returned collection is non-empty, has the required columns, only valid
\* geometries and a CRS; when the gate rejects the frame the call raises the
\* generic failure and returns nothing.
C12_GateBeforeReturn ==
    [][/\ pc' = "save" => (pc = "validate" /\ ~FrameDefect(Given(fields_gdf)))
       /\ pc' = "returned" => (pc = "save" /\ ~FrameDefect(Given(fields_gdf')))
       /\ (pc = "validate" /\ FrameDefect(Given(fields_gdf))) =>
             /\ pc' = "raised"
             /\ error' = RuntimeError("Downloaded field data failed validation", "")
             /\ fields_gdf' = NoFrame
             /\ written' = {}]_vars

\* a call ended with the generic failure of the gate
C12_Witness ==
    /\ pc = "raised"
    /\ queries = 1
    /\ error.type = "RuntimeError"
    /\ error.msg = "Downloaded field data failed validation"

\* C13: every returned record has a state FIPS code of one of the requested
\* regions.
C13_ReturnedInRequestedRegions ==
    pc = "returned" =>
        \A i \in 1..Len(fields_gdf.rows) :
            \E j \in 1..Len(ArgRegions) :
                fields_gdf.rows[i].state_fips \in Range(REGION_STATE_FIPS[ArgRegions[j]])

\* a call for two regions returned a record of the second one
C13_Witness ==
    /\ pc = "returned"
    /\ kwargs.regions = Given(<<"corn_belt", "great_plains">>)
    /\ \E i \in 1..Len(fields_gdf.rows) : fields_gdf.rows[i].state_fips = "20"

ValidFilterArgs ==
    /\ ArgCount >= 1
    /\ ArgRegions # <<>>
    /\ UnknownNames(ArgRegions, {"corn_belt", "great_plains", "southeast"}) = {}
    /\ ArgCrops # <<>>
    /\ UnknownNames(ArgCrops, {"corn", "soybeans", "wheat", "cotton"}) = {}

\* C15 as stated: a call with valid count, regions and crops and an output
\* format other than geojson or shapefile ends with the unsupported-format
\* ValueError, whatever the remote query did (here: even when the connection
\* and the query themselves did not fail).
C15_UnsupportedFormatError ==
    (/\ pc \in {"raised", "returned"}
     /\ ValidFilterArgs
     /\ FormatOf(kwargs) \notin {"geojson", "shapefile"}
     /\ error.cause \notin {"connect failed", "extension failed", "query failed"}) =>
        /\ pc = "raised"
        /\ error.type = "ValueError"
        /\ error.msg = "Unsupported output format"

C17_OneLazyCachedConnection ==
    /\ [](/\ Len(handles) <= 1
          /\ duckdb_conn \in {0, Len(handles)}
          /\ con # 0 => (con = duckdb_conn /\ con = 1)
          /\ pc \in {"query", "process", "validate", "save", "returned"} => con = 1)
    /\ [][handles # <<>> \/ (handles' # <<>> => (pc = "connect" /\ acquired))]_vars

\* a later call was handed the connection an earlier call created
C17_Witness ==
    /\ pc = "query"
    /\ stmt = 0
    /\ con = 1
    /\ Len(handles) = 1

\* C18: teardown closes the connection the instance opened, nothing is closed
\* before teardown, and teardown of an instance that never opened a
\* connection closes nothing.
C18_TeardownClosesConnection ==
    /\ pc = "deleted" => \A i \in 1..Len(handles) : handles[i].closed
    /\ pc # "deleted" => \A i \in 1..Len(handles) : ~handles[i].closed
    /\ duckdb_conn = 0 => handles = <<>>

\* an instance that had opened a connection was torn down
C18_Witness ==
    /\ pc = "deleted"
    /\ Len(handles) = 1
    /\ handles[1].closed

\* C19: a failure inside extraction (connection setup, an extension
\* statement, the remote query, or a query without rows) reaches the caller
\* as RuntimeError "Data download failed: ..." carrying the cause, and the
\* call returns no records.
C19_ExtractionErrorWrapsCause ==
    [][/\ (pc \in {"connect", "ext", "query", "process"} /\ pc' = "raised") =>
             /\ error'.type = "RuntimeError"
             /\ error'.msg = "Data download failed"
             /\ error'.cause \in {"connect failed", "extension failed", "query failed",
                                  "No fields found matching criteria"}
             /\ pc = "connect" => error'.cause = "connect failed"
             /\ pc = "ext" => error'.cause = "extension failed"
             /\ pc = "query" => error'.cause = "query failed"
             /\ pc = "process" => error'.cause = "No fields found matching criteria"
             /\ fields_gdf' = NoFrame
             /\ written' = {}
       /\ (pc = "process" /\ Len(result_df) = 0) => pc' = "raised"]_vars

\* a query that returned no rows ended the call with the extraction error
C19_Witness ==
    /\ pc = "raised"
    /\ queries = 1
    /\ error.msg = "Data download failed"
    /\ error.cause = "No fields found matching criteria"

\* C20 as stated: when the query returned rows and none has a positive area,
\* the call ends with the extraction error (acre bounds, if given, being
\* well-formed).
C20_AllDegenerateIsExtractionError ==
    [][(/\ initial_count > 0
        /\ filtered_count = 0
        /\ ~BadAcreBounds
        /\ pc' \in {"raised", "returned"}) =>
           /\ pc' = "raised"
           /\ error'.msg = "Data download failed"]_vars

(* ---------------------------------------------------------------------- *)
(* Properties of the labelling, the CRS, construction and the row limit    *)
(* ---------------------------------------------------------------------- *)

\* the codes of the regions in a list
CodesOf(regions) == UNION {Range(REGION_STATE_FIPS[regions[i]]) : i \in 1..Len(regions)}

\* the codes of every region of the table
AllCodes == CodesOf(<<"corn_belt", "great_plains", "southeast">>)

C24_RowLimit ==
    fcall.op = "request_count" =>
        LET count == fcall.args[1]
            limit == fcall.result
        IN /\ limit = IF 2 * count >= count + 10 THEN 2 * count ELSE count + 10
           /\ limit >= 2 * count
           /\ limit >= count + 10
           /\ limit > count

\* the row limit of a count for which 2*count is the larger bound
C24_Witness ==
    /\ fcall.op = "request_count"
    /\ fcall.args = <<12>>
    /\ fcall.result = 24

\* C23 as stated: a downloader can be constructed with a data_source_url
\* beside config, and is then ready for download.
C23_ConstructWithDataSourceUrl ==
    (/\ fcall.op = "__init__"
     /\ \E i \in 1..Len(fcall.args) : fcall.args[i] = "data_source_url") =>
        /\ fcall.result = "instance"
        /\ pc = "idle"
        /\ error = NoError

\* C22: every returned collection carries EPSG:4326, and the acreage of a
\* row is the area its geometry has in the equal-area CRS (square metres over
\* 4046.86), taken before the reprojection: a sampled row of positive
\* equal-area size is never dropped as degenerate.
C22_GeographicCrsAreaFromEqualArea ==
    /\ [](pc = "returned" => fields_gdf.crs = "EPSG:4326")
    /\ [][(pc = "process" /\ pc' = "validate") =>
            /\ fields_gdf'.crs = "EPSG:4326"
            /\ filtered_count' =
                  Cardinality({j \in 1..Len(result_df) : result_df[j].area_sqm > 0})
            /\ \A i \in 1..Len(fields_gdf'.rows) :
                  \E j \in 1..Len(result_df) :
                      /\ result_df[j].id = fields_gdf'.rows[i].field_id
                      /\ fields_gdf'.rows[i].area_acres = result_df[j].area_sqm * 100]_vars

\* a returned collection in EPSG:4326 with a row of 40469 square metres,
\* which is ten acres
C22_Witness ==
    /\ pc = "returned"
    /\ fields_gdf.crs = "EPSG:4326"
    /\ \E i \in 1..Len(fields_gdf.rows) :
          fields_gdf.rows[i].area_acres = 10 * SqMetresPerAcreX100 + 40

\* C25: a download call issues at most one remote data query: none follows
\* the dropping of degenerate rows, even if fewer than count remain, and none
\* follows a failed query.
C25_AtMostOneQueryPerCall ==
    /\ [](queries <= 1)
    /\ [][/\ queries' > queries => (pc = "query" /\ queries = 0)
          /\ pc' = "query" => pc \in {"query", "get_conn", "ext"}
          /\ (pc = "query" /\ pc' # "query") => pc' \in {"process", "raised"}
          /\ (pc = "query" /\ pc' = "raised") =>
                (queries' = 1 /\ error'.cause = "query failed")]_vars

\* a call that returned fewer records than count, rows having been dropped as
\* degenerate, after its single query
C25_Witness ==
    /\ pc = "returned"
    /\ queries = 1
    /\ filtered_count < initial_count
    /\ Len(fields_gdf.rows) < ArgCount

\* C26: acquisition is not thread-safe. With two threads in download on one
\* instance each can find no cached handle and create one, so up to two
\* handles exist; a thread's store replaces whatever handle is cached, and
\* teardown closes the cached handle and no other.
C26_LastStoredHandleCachedAndClosed ==
    /\ [](/\ Len(handles) <= 2
          /\ duckdb_conn \in 0..Len(handles)
          /\ pc # "deleted" => \A i \in 1..Len(handles) : ~handles[i].closed
          /\ pc = "deleted" =>
                \A i \in 1..Len(handles) : handles[i].closed <=> i = duckdb_conn)
    /\ [][(thread2.pc = "store" /\ thread2'.pc = "ext") =>
             duckdb_conn' = thread2.made]_vars

\* both threads saw no cached handle and each created one; the second
\* thread's handle replaced the first thread's, which teardown left open
C26_Witness ==
    /\ pc = "deleted"
    /\ Len(handles) = 2
    /\ thread2.made = duckdb_conn
    /\ \E i \in 1..2 : i # duckdb_conn /\ ~handles[i].closed /\ handles[i].done # {}
    /\ handles[duckdb_conn].closed

\* C27 as stated: every handle connection acquisition returns has had the
\* spatial and the httpfs extension installed and loaded.
C27_ReturnedHandleFullyLoaded ==
    (pc = "query" /\ con # 0) => FullyLoaded(handles[con])

\* C28: persistence is the last step and follows the gate: a file changes
\* only in the step that makes the call return, and a call that raises has
\* written no file, so the files of earlier calls are as they were.
C28_RaisingCallWritesNothing ==
    /\ [](pc \in {"raised", "get_conn", "connect", "ext", "query", "process",
                  "validate", "save"} => written = {})
    /\ [][/\ files' # files => (pc = "save" /\ pc' = "returned")
          /\ pc' = "raised" => files' = files]_vars

\* a call ended with the unsupported-format error while the shapefile of an
\* earlier call is in place
C28_Witness ==
    /\ pc = "raised"
    /\ error.msg = "Unsupported output format"
    /\ written = {}
    /\ files["fields.shp"].exists
    /\ files["fields.shp"].nrows = 2

\* C29: when download returns, the records are the first min(count, p) of the
\* p sampled rows of positive area, in sample order; each has area_acres > 0
\* and there are never more than count.
C29_FirstPositiveRowsInSampleOrder ==
    /\ [](pc = "returned" =>
            /\ Len(fields_gdf.rows) <= ArgCount
            /\ Len(fields_gdf.rows) =
                  IF ArgCount <= filtered_count THEN ArgCount ELSE filtered_count
            /\ \A i \in 1..Len(fields_gdf.rows) : fields_gdf.rows[i].area_acres > 0)
    /\ [][(pc = "process" /\ pc' = "validate") =>
            LET positive == SelectSeq(result_df, LAMBDA r : r.area_sqm > 0)
            IN /\ filtered_count' = Len(positive)
               /\ Len(fields_gdf'.rows) =
                     IF ArgCount <= Len(positive) THEN ArgCount ELSE Len(positive)
               /\ \A i \in 1..Len(fields_gdf'.rows) :
                     fields_gdf'.rows[i].field_id = positive[i].id]_vars

\* a call for one record returned it out of a sample of three rows, two of
\* them of positive area
C29_Witness ==
    /\ pc = "returned"
    /\ ArgCount = 1
    /\ initial_count = 3
    /\ filtered_count = 2
    /\ Len(fields_gdf.rows) = 1

\* C30: the code sets of the three regions are pairwise disjoint, and every
\* returned record is labelled with a requested region, the one whose code
\* set holds its state_fips; "mixed" never appears.
C30_LabelIsRequestedRegion ==
    /\ \A a, b \in DOMAIN REGION_STATE_FIPS :
          a # b => Range(REGION_STATE_FIPS[a]) \cap Range(REGION_STATE_FIPS[b]) = {}
    /\ pc = "returned" =>
          \A i \in 1..Len(fields_gdf.rows) :
              LET row == fields_gdf.rows[i]
              IN /\ row.region # "mixed"
                 /\ \E j \in 1..Len(ArgRegions) : row.region = ArgRegions[j]
                 /\ row.state_fips \in Range(REGION_STATE_FIPS[row.region])

\* a call for two regions returned records labelled with either
C30_Witness ==
    /\ pc = "returned"
    /\ Len(ArgRegions) = 2
    /\ \E i, j \in 1..Len(fields_gdf.rows) :
          /\ fields_gdf.rows[i].region = "corn_belt"
          /\ fields_gdf.rows[j].region = "great_plains"

====
